---- MODULE Spec2Model ----
(***************************************************************************)
(* Model of the eBay listing generator: ai_module.py (eBayListingGenerator *)
(* and its field generators) and app.py (CloudStorageManager,              *)
(* eBayAPIManager and the Streamlit session).                              *)
(*                                                                         *)
(* Text is a sequence of one-character strings.  A reply of the external   *)
(* language model is a record [kind, text]:                                *)
(*   kind = "text"  : the call returned and message.content is `text`      *)
(*   kind = "none"  : the call returned and message.content is None        *)
(*   kind = "error" : the call raised an exception whose str() is `text`   *)
(***************************************************************************)
EXTENDS Integers, Sequences, FiniteSets, TLC

VARIABLES
    weightCall,      \* estimate_postage_weight: [done, reply, stored]
    titleCall,       \* generate_ebay_title: [done, reply, stored]
    image_paths,     \* generate_complete_listing: the paths it was called with
    readLog,         \* the paths encode_image opened, in order
    modelCalls,      \* the requests made to the external model, in order
    analysis_result, \* what analyze_product_images did: [kind, success, analysis, error]
    genOutcome,      \* what generate_complete_listing did: [kind, listing, error]
    modelReplies,    \* what the external model answered to the requests of the run
    upCall,          \* upload_multiple_images: [done, storage_type, files, outcomes, times]
    upResult,        \* what it did: [urls, attempts, errors]
    access_token,    \* eBayAPIManager.access_token
    refresh_token,   \* eBayAPIManager.refresh_token
    tokenPosts,      \* requests sent to the marketplace token endpoint
    draftPosts,      \* requests sent to the marketplace draft-listing endpoint
    pubCall,         \* the last call on the publisher, with the state it found
    reportedSuccess, \* some get_access_token call of the session returned True
    uploaded_files,  \* the files in the file_uploader widget
    uploaded_images, \* st.session_state.uploaded_images
    generated_listing, \* st.session_state.generated_listing
    image_urls,      \* st.session_state.image_urls
    listing_created, \* st.session_state.listing_created
    tempFiles,       \* the temporary files that exist
    lastRun,         \* the last rerun of main: [action, error, handed, edits,
                     \* final, runs]
    listingSource,   \* the uploaded images generated_listing was generated from
    urlsSource,      \* the uploaded images image_urls are the uploads of
    clock,           \* datetime.now(), in seconds
    batchNo,         \* upload_multiple_images calls made on the storage so far
    uploadLog,       \* the objects stored by them: [batch, key]
    env,             \* os.environ: for each key "unset", "empty" or "set"
    startup          \* what the script did when started: [done, reported, main]

fnVars == <<weightCall, titleCall>>
genVars == <<image_paths, readLog, modelCalls, analysis_result, genOutcome, modelReplies>>
upVars == <<upCall, upResult>>
pubVars == <<access_token, refresh_token, tokenPosts, draftPosts, pubCall, reportedSuccess>>
appVars == <<uploaded_files, uploaded_images, generated_listing, image_urls,
             listing_created, tempFiles, lastRun, listingSource,
            urlsSource>>
storeVars == <<clock, batchNo, uploadLog>>
cfgVars == <<env, startup>>
vars == <<weightCall, titleCall, image_paths, readLog, modelCalls, analysis_result,
          genOutcome, modelReplies, upCall, upResult, access_token, refresh_token,
          tokenPosts, draftPosts, pubCall, reportedSuccess, uploaded_files,
          uploaded_images, generated_listing, image_urls, listing_created, tempFiles,
          lastRun, listingSource, urlsSource, clock, batchNo, uploadLog, env, startup>>

----------------------------------------------------------------------------
(* Bounds of the model *)

MaxWeightLen == 4   \* longest raw weight text
MaxPad == 2         \* most whitespace characters on either side of a title text
MaxCore == 83       \* longest title text between the padding
MaxImages == 8      \* most image paths given to one run
MaxFiles == 3       \* most image files given to one upload
MaxClock == 2       \* seconds that pass during one upload
MaxPubCalls == 3    \* calls made on one publisher
MaxRuns == 2        \* generate clicks in one session
MaxBatches == 2     \* upload calls in one session

(* Program constants *)

TitleLimit == 80    \* eBay's title limit, title[:80]
ImageLimit == 6     \* image_paths[:6]

----------------------------------------------------------------------------
(* Text helpers *)

SetMin(S) == CHOOSE x \in S : \A y \in S : x <= y
SetMax(S) == CHOOSE x \in S : \A y \in S : x >= y

Repeat(c, n) == [i \in 1..n |-> c]
Min(a, b) == IF a < b THEN a ELSE b
Range(s) == {s[i] : i \in 1..Len(s)}

\* The whitespace str.strip() removes, within the alphabet of the model.
IsSpace(c) == c \in {" ", "\n"}

\* str.strip(): the text without its leading and trailing whitespace.
Strip(s) ==
    LET keep == {i \in 1..Len(s) : ~IsSpace(s[i])}
    IN  IF keep = {} THEN <<>> ELSE SubSeq(s, SetMin(keep), SetMax(keep))

\* Python's s[:n].
Prefix(s, n) == SubSeq(s, 1, IF Len(s) < n THEN Len(s) ELSE n)

ErrTitlePrefix ==
    <<"E", "r", "r", "o", "r", " ", "g", "e", "n", "e", "r", "a", "t", "i", "n", "g",
      " ", "t", "i", "t", "l", "e", ":", " ">>
ErrDescPrefix ==
    <<"<", "p", ">", "E", "r", "r", "o", "r", " ", "g", "e", "n", "e", "r", "a", "t",
      "i", "n", "g", " ", "d", "e", "s", "c", "r", "i", "p", "t", "i", "o", "n", ":", " ">>
ErrDescSuffix == <<"<", "/", "p", ">">>
ErrCatPrefix ==
    <<"E", "r", "r", "o", "r", " ", "c", "a", "t", "e", "g", "o", "r", "i", "z", "i",
      "n", "g", " ", "p", "r", "o", "d", "u", "c", "t", ":", " ">>
AnalyzeFailPrefix ==
    <<"F", "a", "i", "l", "e", "d", " ", "t", "o", " ", "a", "n", "a", "l", "y", "z",
      "e", " ", "i", "m", "a", "g", "e", "s", ":", " ">>
\* str() of the AttributeError raised by None.strip()
NoneStripMsg ==
    <<"'", "N", "o", "n", "e", "T", "y", "p", "e", "'", " ", "o", "b", "j", "e", "c",
      "t", " ", "h", "a", "s", " ", "n", "o", " ", "a", "t", "t", "r", "i", "b", "u",
      "t", "e", " ", "'", "s", "t", "r", "i", "p", "'">>

TextReply(t) == [kind |-> "text", text |-> t]
NoneReply == [kind |-> "none", text |-> <<>>]
ErrorReply(m) == [kind |-> "error", text |-> m]

\* str(e) of the exception the except clause of a field generator catches:
\* the one the model call raised, or the AttributeError of None.strip().
ExcMsg(reply) == IF reply.kind = "error" THEN reply.text ELSE NoneStripMsg

\* The generator reaches its return inside the try block.
Succeeds(reply) == reply.kind = "text"

----------------------------------------------------------------------------
(* Numbers: m / 10^s, or NaN.  Python floats are modelled as exact decimals. *)

RECURSIVE Pow10(_)
Pow10(n) == IF n = 0 THEN 1 ELSE 10 * Pow10(n - 1)

RECURSIVE Norm(_, _)
Norm(m, s) ==
    IF s > 0 /\ m % 10 = 0 THEN Norm(m \div 10, s - 1)
    ELSE [nan |-> FALSE, m |-> m, s |-> s]

NaN == [nan |-> TRUE, m |-> 0, s |-> 0]

\* x > y and x < y on floats: false when either side is NaN.
Gt(x, y) == ~x.nan /\ ~y.nan /\ x.m * Pow10(y.s) > y.m * Pow10(x.s)
Lt(x, y) == Gt(y, x)
Ge(x, y) == ~x.nan /\ ~y.nan /\ x.m * Pow10(y.s) >= y.m * Pow10(x.s)

\* Python's max(a, b): a unless b > a.
PyMax(a, b) == IF Gt(b, a) THEN b ELSE a

MinWeight == Norm(1, 1)       \* 0.1
DefaultWeight == Norm(5, 1)   \* 0.5

Digits == {"0", "1", "2"}
DigitVal(c) == IF c = "0" THEN 0 ELSE IF c = "1" THEN 1 ELSE 2

RECURSIVE DigitsVal(_)
DigitsVal(s) ==
    IF s = <<>> THEN 0
    ELSE 10 * DigitsVal(SubSeq(s, 1, Len(s) - 1)) + DigitVal(s[Len(s)])

\* float(s) of Python on the alphabet of the model: surrounding whitespace is
\* ignored, then an optional "-", then "nan" or a decimal literal with at
\* least one digit and at most one point.  [ok |-> FALSE] is ValueError.
\* Exponents, "+", "_", "inf" and upper case need characters outside WeightChars.
FloatParse(s) ==
    LET t    == Strip(s)
        neg  == t # <<>> /\ t[1] = "-"
        body == IF neg THEN SubSeq(t, 2, Len(t)) ELSE t
        dots == {i \in 1..Len(body) : body[i] = "."}
        digs == {i \in 1..Len(body) : body[i] \in Digits}
        isDecimal == /\ digs # {}
                     /\ Cardinality(dots) <= 1
                     /\ digs \cup dots = 1..Len(body)
        mant == DigitsVal(SelectSeq(body, LAMBDA c : c \in Digits))
        frac == IF dots = {} THEN 0 ELSE Len(body) - SetMin(dots)
    IN  IF body = <<"n", "a", "n">> THEN [ok |-> TRUE, val |-> NaN]
        ELSE IF isDecimal
             THEN [ok |-> TRUE, val |-> Norm(IF neg THEN -mant ELSE mant, frac)]
             ELSE [ok |-> FALSE, val |-> NaN]

----------------------------------------------------------------------------
(* Field generators of eBayListingGenerator *)

\* Mutant: the minimum of 100 g is not applied.
ClampWeightOff(w) == w

\* max(0.1, weight)
ClampWeight(w) == PyMax(MinWeight, w)

estimate_postage_weight(reply) ==
    IF reply.kind = "text"
    THEN LET p == FloatParse(Strip(reply.text))
         IN  IF p.ok THEN ClampWeight(p.val) ELSE DefaultWeight
    ELSE DefaultWeight

\* Mutant: the slice is one character short.
TruncateTitleShort(title) ==
    IF Len(title) > TitleLimit THEN Prefix(title, TitleLimit - 1) ELSE title

\* title[:80] if len(title) > 80 else title
TruncateTitle(title) ==
    IF Len(title) > TitleLimit THEN Prefix(title, TitleLimit) ELSE title

generate_ebay_title(reply) ==
    IF reply.kind = "text"
    THEN TruncateTitle(Strip(reply.text))
    ELSE ErrTitlePrefix \o ExcMsg(reply)

generate_ebay_description(reply) ==
    IF reply.kind = "text"
    THEN Strip(reply.text)
    ELSE ErrDescPrefix \o ExcMsg(reply) \o ErrDescSuffix

categorize_product(reply) ==
    IF reply.kind = "text"
    THEN Strip(reply.text)
    ELSE ErrCatPrefix \o ExcMsg(reply)

----------------------------------------------------------------------------
(* Python values that may be None: <<>> is None, <<v>> is the value v. *)

PyNone == <<>>
Val(v) == <<v>>

(* encode_image and analyze_product_images *)

\* str() of the OSError open() raises on a path that cannot be read.
OpenErrMsg == <<"E", "N", "O", "E", "N", "T">>

\* base64 of the bytes of the file at path p, as sent in a data URL.
encode_image(p) == [b64 |-> p]

\* Mutant: the loop runs over every path.
UsedPathsAll(paths) == paths

\* image_paths[:6]
UsedPaths(paths) == Prefix(paths, ImageLimit)

\* The step on paths of which those in `unreadable` cannot be opened, the
\* model answering `reply`.  The loop over image_paths[:6] runs before the
\* try block: the first path that cannot be opened ends the step with the
\* exception of open().  Otherwise one request carries the encoded images;
\* an exception of the call is caught and returned as a tagged failure.
analyze_product_images(paths, unreadable, reply) ==
    LET used == UsedPaths(paths)
        bad  == {i \in 1..Len(used) : used[i] \in unreadable}
    IN  IF bad # {}
        THEN [kind |-> "raised", success |-> FALSE, analysis |-> PyNone,
              error |-> OpenErrMsg,
              read |-> SubSeq(used, 1, SetMin(bad)), calls |-> <<>>]
        ELSE LET request == [call |-> "analysis",
                             images |-> [i \in 1..Len(used) |-> encode_image(used[i])],
                             analysis |-> PyNone]
             IN  IF reply.kind = "error"
                 THEN [kind |-> "returned", success |-> FALSE, analysis |-> PyNone,
                       error |-> reply.text, read |-> used, calls |-> <<request>>]
                 ELSE [kind |-> "returned", success |-> TRUE,
                       analysis |-> IF reply.kind = "text" THEN Val(reply.text) ELSE PyNone,
                       error |-> <<>>, read |-> used, calls |-> <<request>>]

(* ProductListing and generate_complete_listing *)

\* Mutant: description and category passed in each other's place.
ProductListingSwapped(title, description, category, postage_weight) ==
    [title |-> Val(title), description |-> Val(category), category |-> Val(description),
     postage_weight |-> Val(postage_weight), suggested_price |-> PyNone]

ProductListing(title, description, category, postage_weight) ==
    [title |-> Val(title), description |-> Val(description), category |-> Val(category),
     postage_weight |-> Val(postage_weight), suggested_price |-> PyNone]

NoListing ==
    [title |-> PyNone, description |-> PyNone, category |-> PyNone,
     postage_weight |-> PyNone, suggested_price |-> PyNone]

\* Mutant: the field generators are not given the analysis.
FieldCallWithoutAnalysis(name, product_analysis) ==
    [call |-> name, images |-> <<>>, analysis |-> PyNone]

\* The request of a field generator: its prompt embeds product_analysis.
FieldCall(name, product_analysis) ==
    [call |-> name, images |-> <<>>, analysis |-> product_analysis]

\* Mutant: the result of the analysis step is not looked at.
AnalysisFailedIgnored(a) == FALSE

\* if not analysis_result["success"]
AnalysisFailed(a) == ~a.success

\* One run: the analysis step, then, only when it returned success, the four
\* field generators in the order of the source.  replies is the answer of the
\* external model to each of the five requests.
generate_complete_listing(paths, unreadable, replies) ==
    LET a == analyze_product_images(paths, unreadable, replies.analysis)
        step == [kind |-> a.kind, success |-> a.success, analysis |-> a.analysis,
                 error |-> a.error]
    IN  IF a.kind = "raised"
        THEN [read |-> a.read, calls |-> a.calls, analysis_result |-> step,
              outcome |-> [kind |-> "raised", listing |-> NoListing, error |-> a.error]]
        ELSE IF AnalysisFailed(a)
        THEN [read |-> a.read, calls |-> a.calls, analysis_result |-> step,
              outcome |-> [kind |-> "raised", listing |-> NoListing,
                           error |-> AnalyzeFailPrefix \o a.error]]
        ELSE [read |-> a.read,
              calls |-> a.calls \o <<FieldCall("title", a.analysis),
                                     FieldCall("description", a.analysis),
                                     FieldCall("category", a.analysis),
                                     FieldCall("weight", a.analysis)>>,
              analysis_result |-> step,
              outcome |-> [kind |-> "returned",
                           listing |-> ProductListing(
                               generate_ebay_title(replies.title),
                               generate_ebay_description(replies.description),
                               categorize_product(replies.category),
                               estimate_postage_weight(replies.weight)),
                           error |-> <<>>]]

----------------------------------------------------------------------------
(* CloudStorageManager *)

Filename(timestamp, i) == [timestamp |-> timestamp, i |-> i]
Url(bucket_name, filename) == [bucket |-> bucket_name, key |-> filename]
BucketName == "S3_BUCKET_NAME"
NoUrl == Url("", Filename(0, 0))

\* One upload: the URL, or None.  With storage_type "s3" an exception of
\* upload_fileobj is reported with st.error and None is returned; with any
\* other storage_type the function falls off its end and returns None.
upload_image(storage_type, filename, outcome) ==
    IF storage_type = "s3"
    THEN IF outcome = "ok"
         THEN [url |-> Val(Url(BucketName, filename)), sent |-> TRUE, reported |-> FALSE]
         ELSE [url |-> PyNone, sent |-> TRUE, reported |-> TRUE]
    ELSE [url |-> PyNone, sent |-> FALSE, reported |-> FALSE]

\* Mutant: the URL is appended without the test.
KeepUrlAlways(urls, url) == Append(urls, IF url # PyNone THEN url[1] ELSE NoUrl)

\* if url: urls.append(url)
KeepUrl(urls, url) == IF url # PyNone THEN Append(urls, url[1]) ELSE urls

\* The loop of upload_multiple_images from item i on (i counts from 1, the
\* source's enumerate from 0).  times[i] is datetime.now() at item i, to the
\* second.  image_file.seek(0) only rewinds the file and leaves no trace here.
RECURSIVE UploadLoop(_, _, _, _, _, _)
UploadLoop(i, storage_type, image_files, outcomes, times, acc) ==
    IF i > Len(image_files) THEN acc
    ELSE IF image_files[i] = PyNone
    THEN UploadLoop(i + 1, storage_type, image_files, outcomes, times, acc)
    ELSE LET filename == Filename(times[i], i - 1)
             r == upload_image(storage_type, filename, outcomes[i])
         IN  UploadLoop(i + 1, storage_type, image_files, outcomes, times,
                 [urls |-> KeepUrl(acc.urls, r.url),
                  attempts |-> Append(acc.attempts, i - 1),
                  errors |-> IF r.reported THEN Append(acc.errors, i - 1) ELSE acc.errors])

upload_multiple_images(storage_type, image_files, outcomes, times) ==
    UploadLoop(1, storage_type, image_files, outcomes, times,
               [urls |-> <<>>, attempts |-> <<>>, errors |-> <<>>])

----------------------------------------------------------------------------
(* eBayAPIManager *)

NoTokenMsg ==
    <<"N", "o", " ", "a", "c", "c", "e", "s", "s", " ", "t", "o", "k", "e", "n", " ",
      "a", "v", "a", "i", "l", "a", "b", "l", "e">>
ApiErrPrefix == <<"A", "P", "I", " ", "E", "r", "r", "o", "r", ":", " ">>
ApiErrSep == <<" ", "-", " ">>
DraftCreatedMsg ==
    <<"D", "r", "a", "f", "t", " ", "l", "i", "s", "t", "i", "n", "g", " ", "c", "r",
      "e", "a", "t", "e", "d", " ", "s", "u", "c", "c", "e", "s", "s", "f", "u", "l",
      "l", "y">>

\* Python's truth value of an Optional[str]: None and "" are false.
Truthy(x) == x # PyNone /\ x[1] # ""

\* Mutant: the publisher does not look at its token.
MissingTokenIgnored(token) == FALSE

\* if not self.access_token
MissingToken(token) == ~Truthy(token)

\* get_access_token on the response of the token endpoint, a record
\* [kind, access, refresh]:
\*   "transport_error": requests.post raised a RequestException
\*   "http_error"     : raise_for_status raised HTTPError
\*   "not_json"       : response.json() raised; jsonErrCaught says whether the
\*                      installed requests raises it as a RequestException
\*   "json_array"     : the body is JSON but no object: token_data.get raises
\*                      AttributeError, which the except clause does not catch
\*   "json_object"    : access and refresh are token_data.get(...) of the body
get_access_token(acc, ref, resp, jsonErrCaught) ==
    IF resp.kind \in {"transport_error", "http_error"}
    THEN [ret |-> "False", access_token |-> acc, refresh_token |-> ref]
    ELSE IF resp.kind = "not_json"
    THEN [ret |-> IF jsonErrCaught THEN "False" ELSE "raised",
          access_token |-> acc, refresh_token |-> ref]
    ELSE IF resp.kind = "json_array"
    THEN [ret |-> "raised", access_token |-> acc, refresh_token |-> ref]
    ELSE [ret |-> "True", access_token |-> resp.access, refresh_token |-> resp.refresh]

\* The body of the draft request, of the fields taken from the arguments.
DraftPayload(listing, urls) ==
    [title |-> listing.title, description |-> listing.description,
     imageUrls |-> urls]

\* create_draft_listing on the response of the draft endpoint, a record
\* [kind, sku, text]: "transport_error" (requests.post raised, text is
\* str(e)), "created" (status 201, sku is response.json().get("sku")),
\* "created_not_json" (status 201, response.json() raised, text is str(e)),
\* "status" (another status, text is the status code and the body).
create_draft_listing(acc, listing, urls, resp) ==
    LET sent == Val(DraftPayload(listing, urls))
    IN  IF MissingToken(acc)
        THEN [posted |-> FALSE, payload |-> PyNone, success |-> FALSE,
              listing_id |-> PyNone, error |-> NoTokenMsg]
        ELSE IF resp.kind = "created"
        THEN [posted |-> TRUE, payload |-> sent, success |-> TRUE,
              listing_id |-> resp.sku, error |-> <<>>]
        ELSE IF resp.kind = "status"
        THEN [posted |-> TRUE, payload |-> sent, success |-> FALSE,
              listing_id |-> PyNone, error |-> ApiErrPrefix \o resp.text]
        ELSE [posted |-> TRUE, payload |-> sent, success |-> FALSE,
              listing_id |-> PyNone, error |-> resp.text]

----------------------------------------------------------------------------
(* Inputs of the pure-function specifications *)

WeightChars == {"0", "1", "2", ".", "-", " ", "n", "a"}

RECURSIVE TextsUpTo(_, _)
TextsUpTo(chars, n) ==
    IF n = 0 THEN {<<>>}
    ELSE LET shorter == TextsUpTo(chars, n - 1)
         IN  shorter \cup {Append(t, c) : t \in {u \in shorter : Len(u) = n - 1}, c \in chars}

WeightTexts == TextsUpTo(WeightChars, MaxWeightLen)

\* The n characters of a title text between its padding: letters that differ
\* from their neighbours, with a blank inside when inner is set.
CoreChar(i, inner) ==
    IF inner /\ i = 2 THEN " "
    ELSE IF i % 3 = 1 THEN "a" ELSE IF i % 3 = 2 THEN "b" ELSE "c"
Core(n, inner) == [i \in 1..n |-> CoreChar(i, inner /\ n >= 3)]

TitleTexts ==
    {Repeat(lc, lead) \o Core(n, inner) \o Repeat(" ", trail) :
        lc \in {" ", "\n"}, lead \in 0..MaxPad, trail \in 0..MaxPad,
        n \in 0..MaxCore, inner \in BOOLEAN}

NoNumber == NaN

----------------------------------------------------------------------------
(* Inputs of a run of generate_complete_listing *)

ShortErr == <<"t", "i", "m", "e", "o", "u", "t">>
LongErr == Repeat("e", TitleLimit - Len(ErrTitlePrefix) + 1)

AnalysisReplies ==
    {TextReply(<<"s", "h", "o", "e">>), TextReply(<<" ", "s", " ">>), NoneReply,
     ErrorReply(ShortErr)}
TitleReplies ==
    {TextReply(<<"N", "i", "k", "e">>), TextReply(<<" ">> \o Core(TitleLimit + 1, FALSE)),
     NoneReply, ErrorReply(ShortErr), ErrorReply(LongErr)}
DescReplies ==
    {TextReply(<<"<", "b", ">", "o", "k", "\n">>), ErrorReply(ShortErr)}
CatReplies ==
    {TextReply(<<"A", " ", ">", " ", "B">>), ErrorReply(ShortErr)}
WeightReplies ==
    {TextReply(<<"2">>), TextReply(<<"0", ".", "0", "2">>), TextReply(<<"2", "k", "g">>),
     ErrorReply(ShortErr)}

ReplySets ==
    [analysis : AnalysisReplies, title : TitleReplies, description : DescReplies,
     category : CatReplies, weight : WeightReplies]

\* n distinct paths, in the order given
Paths(n) == [i \in 1..n |-> i]

(* SpecGen: one run of generate_complete_listing *)

GenIdle ==
    /\ image_paths = <<>>
    /\ readLog = <<>>
    /\ modelCalls = <<>>
    /\ analysis_result = [kind |-> "none", success |-> FALSE, analysis |-> PyNone,
                          error |-> <<>>]
    /\ genOutcome = [kind |-> "none", listing |-> NoListing, error |-> <<>>]
    /\ modelReplies = [analysis |-> NoneReply, title |-> NoneReply,
                       description |-> NoneReply, category |-> NoneReply,
                       weight |-> NoneReply]

FnIdle ==
    /\ weightCall = [done |-> FALSE, reply |-> NoneReply, stored |-> NoNumber]
    /\ titleCall = [done |-> FALSE, reply |-> NoneReply, stored |-> <<>>]

UpIdle ==
    /\ upCall = [done |-> FALSE, storage_type |-> "s3", files |-> <<>>, outcomes |-> <<>>,
                 times |-> <<>>]
    /\ upResult = [urls |-> <<>>, attempts |-> <<>>, errors |-> <<>>]

NoCallResult ==
    [posted |-> FALSE, payload |-> PyNone, success |-> FALSE, listing_id |-> PyNone,
     error |-> <<>>]

\* eBayAPIManager.__init__
PubIdle ==
    /\ access_token = PyNone
    /\ refresh_token = PyNone
    /\ tokenPosts = 0
    /\ draftPosts = 0
    /\ pubCall = [op |-> "none", ret |-> "none", tokenBefore |-> PyNone,
                  refreshBefore |-> PyNone, reportedBefore |-> FALSE,
                  result |-> NoCallResult]
    /\ reportedSuccess = FALSE

\* init_session_state
\* What the user typed into the review form in a rerun: None for a widget
\* left as it was drawn.
NoEdits == [title |-> PyNone, description |-> PyNone, weight |-> PyNone]

\* The record of a rerun of main that showed no error, took no edit and handed
\* nothing to the publisher.
Ran(action, runs) ==
    [action |-> action, error |-> PyNone, handed |-> PyNone, edits |-> NoEdits,
     final |-> PyNone, runs |-> runs]

AppIdle ==
    /\ uploaded_files = <<>>
    /\ uploaded_images = <<>>
    /\ generated_listing = PyNone
    /\ image_urls = <<>>
    /\ listing_created = FALSE
    /\ tempFiles = {}
    /\ lastRun = Ran("none", 0)
    /\ listingSource = <<>>
    /\ urlsSource = <<>>

StoreIdle ==
    /\ clock = 0
    /\ batchNo = 0
    /\ uploadLog = {}

\* check_configuration's dict of required variables, in its order, and the
\* list that main checks again in the sidebar.
required_vars_sidebar_only ==
    << [var |-> "OPENAI_API_KEY", description |-> "OpenAI API key for AI generation"],
       [var |-> "EBAY_CLIENT_ID", description |-> "eBay API client ID"],
       [var |-> "AWS_ACCESS_KEY_ID", description |-> "AWS access key for S3 storage"] >>
required_vars ==
    << [var |-> "OPENAI_API_KEY", description |-> "OpenAI API key for AI generation"],
       [var |-> "EBAY_CLIENT_ID", description |-> "eBay API client ID"],
       [var |-> "EBAY_CLIENT_SECRET", description |-> "eBay API client secret"],
       [var |-> "EBAY_REDIRECT_URI", description |-> "eBay OAuth redirect URI"],
       [var |-> "AWS_ACCESS_KEY_ID", description |-> "AWS access key for S3 storage"],
       [var |-> "AWS_SECRET_ACCESS_KEY", description |-> "AWS secret key for S3 storage"],
       [var |-> "S3_BUCKET_NAME", description |-> "S3 bucket name for image storage"] >>
main_required_vars == <<"OPENAI_API_KEY", "EBAY_CLIENT_ID", "AWS_ACCESS_KEY_ID">>

\* The keys read with a default: os.getenv('AWS_REGION', 'us-east-1') and
\* os.getenv('EBAY_SANDBOX', 'true').
DefaultedKeys == {"AWS_REGION", "EBAY_SANDBOX"}
RequiredKeys ==
    {"OPENAI_API_KEY", "EBAY_CLIENT_ID", "EBAY_CLIENT_SECRET", "EBAY_REDIRECT_URI",
     "AWS_ACCESS_KEY_ID", "AWS_SECRET_ACCESS_KEY", "S3_BUCKET_NAME"}
ConfigKeys == RequiredKeys \cup DefaultedKeys

\* `not os.getenv(var)`: true of a variable that is unset or set to "".
NotSet(environ, var) == environ[var] \in {"unset", "empty"}

\* check_configuration: the entries are f"{var} ({description})", kept here as
\* the pair; False with the list shown when it is not empty.
check_configuration(environ) ==
    LET missing == SelectSeq(required_vars, LAMBDA v : NotSet(environ, v.var))
    IN  [ret |-> missing = <<>>, missing |-> missing]

\* The sidebar of main (lines 385-393): st.stop() when one of its three is
\* missing, before any of the main flow.
MainSidebar(environ) ==
    LET missing_vars == SelectSeq(main_required_vars, LAMBDA v : NotSet(environ, v))
    IN  [stopped |-> missing_vars # <<>>, missing_vars |-> missing_vars]

NotStarted == [done |-> FALSE, reported |-> <<>>, sidebar |-> <<>>, main |-> "none"]

CfgIdle ==
    /\ env = [k \in ConfigKeys |-> "set"]
    /\ startup = NotStarted

Idle == FnIdle /\ GenIdle /\ UpIdle /\ PubIdle /\ AppIdle /\ StoreIdle /\ CfgIdle

InitGen == Idle

RunGenerate ==
    /\ genOutcome.kind = "none"
    /\ \E n \in 0..MaxImages, replies \in ReplySets :
       \E b \in 0..n :
          LET run == generate_complete_listing(Paths(n), {b}, replies)
          IN  /\ image_paths' = Paths(n)
              /\ modelReplies' = replies
              /\ readLog' = run.read
              /\ modelCalls' = run.calls
              /\ analysis_result' = run.analysis_result
              /\ genOutcome' = run.outcome
    /\ UNCHANGED <<fnVars, upVars, pubVars, appVars, storeVars, cfgVars>>

NextGen == RunGenerate

SpecGen == InitGen /\ [][NextGen]_vars

----------------------------------------------------------------------------
(* SpecWeight: estimate_postage_weight on every raw text of WeightTexts *)

InitWeight ==
    /\ weightCall \in {[done |-> FALSE, reply |-> TextReply(t), stored |-> NoNumber] :
                          t \in WeightTexts}
    /\ titleCall = [done |-> FALSE, reply |-> NoneReply, stored |-> <<>>]
    /\ GenIdle /\ UpIdle /\ PubIdle /\ AppIdle /\ StoreIdle /\ CfgIdle

EstimateWeight ==
    /\ ~weightCall.done
    /\ weightCall' = [weightCall EXCEPT !.done = TRUE,
                                        !.stored = estimate_postage_weight(weightCall.reply)]
    /\ UNCHANGED <<titleCall, genVars, upVars, pubVars, appVars, storeVars, cfgVars>>

NextWeight == EstimateWeight

SpecWeight == InitWeight /\ [][NextWeight]_vars

(* SpecTitle: generate_ebay_title on every text of TitleTexts *)

InitTitle ==
    /\ titleCall \in {[done |-> FALSE, reply |-> TextReply(t), stored |-> <<>>] :
                         t \in TitleTexts}
    /\ weightCall = [done |-> FALSE, reply |-> NoneReply, stored |-> NoNumber]
    /\ GenIdle /\ UpIdle /\ PubIdle /\ AppIdle /\ StoreIdle /\ CfgIdle

GenerateTitle ==
    /\ ~titleCall.done
    /\ titleCall' = [titleCall EXCEPT !.done = TRUE,
                                      !.stored = generate_ebay_title(titleCall.reply)]
    /\ UNCHANGED <<weightCall, genVars, upVars, pubVars, appVars, storeVars, cfgVars>>

NextTitle == GenerateTitle

SpecTitle == InitTitle /\ [][NextTitle]_vars

----------------------------------------------------------------------------
(* SpecUpload: one call of upload_multiple_images *)

\* The sequences of n values of S
SeqsOf(S, n) == [1..n -> S]

NonDecreasing(t) == \A i \in 1..(Len(t) - 1) : t[i] <= t[i + 1]

InitUpload == Idle

UploadBatch ==
    /\ ~upCall.done
    /\ \E n \in 0..MaxFiles, storage_type \in {"s3", "local"} :
       \E present \in SeqsOf(BOOLEAN, n), outcomes \in SeqsOf({"ok", "fail"}, n),
          times \in {t \in SeqsOf(0..MaxClock, n) : NonDecreasing(t)} :
          LET image_files == [i \in 1..n |-> IF present[i] THEN Val(i) ELSE PyNone]
          IN  /\ upCall' = [done |-> TRUE, storage_type |-> storage_type,
                            files |-> image_files, outcomes |-> outcomes, times |-> times]
              /\ upResult' = upload_multiple_images(storage_type, image_files, outcomes,
                                                    times)
    /\ UNCHANGED <<fnVars, genVars, pubVars, appVars, storeVars, cfgVars>>

NextUpload == UploadBatch

SpecUpload == InitUpload /\ [][NextUpload]_vars

----------------------------------------------------------------------------
(* SpecStore: a session's calls of upload_multiple_images on one bucket *)

InitStore == Idle

\* One call with every file present and storage_type "s3"; datetime.now()
\* never runs backwards, and is read once for each item.
StoreUpload ==
    /\ batchNo < MaxBatches
    /\ \E n \in 1..MaxFiles :
       \E outcomes \in SeqsOf({"ok", "fail"}, n),
          times \in {t \in SeqsOf(clock..MaxClock, n) : NonDecreasing(t)} :
          LET image_files == [i \in 1..n |-> Val(i)]
              r == upload_multiple_images("s3", image_files, outcomes, times)
          IN  /\ upCall' = [done |-> TRUE, storage_type |-> "s3", files |-> image_files,
                            outcomes |-> outcomes, times |-> times]
              /\ upResult' = r
              /\ batchNo' = batchNo + 1
              /\ clock' = times[n]
              /\ uploadLog' = uploadLog \cup
                    {[batch |-> batchNo + 1, key |-> u.key] : u \in Range(r.urls)}
    /\ UNCHANGED <<fnVars, genVars, pubVars, appVars, cfgVars>>

NextStore == StoreUpload

SpecStore == InitStore /\ [][NextStore]_vars

----------------------------------------------------------------------------
(* SpecConfig: the start of the script under every environment *)

InitConfig ==
    /\ env \in [ConfigKeys -> {"unset", "empty", "set"}]
    /\ startup = NotStarted
    /\ FnIdle /\ GenIdle /\ UpIdle /\ PubIdle /\ AppIdle /\ StoreIdle

\* Lines 567-571: main() only if check_configuration() returned True, st.stop()
\* otherwise.
Startup ==
    /\ ~startup.done
    /\ LET c == check_configuration(env)
           m == MainSidebar(env)
       IN  startup' = [done |-> TRUE,
                       reported |-> c.missing,
                       sidebar |-> IF c.ret THEN m.missing_vars ELSE <<>>,
                       main |-> IF ~c.ret THEN "not_called"
                                ELSE IF m.stopped THEN "stopped" ELSE "ran"]
    /\ UNCHANGED <<env, fnVars, genVars, upVars, pubVars, appVars, storeVars>>

NextConfig == Startup

SpecConfig == InitConfig /\ [][NextConfig]_vars

----------------------------------------------------------------------------
(* SpecPub: get_access_token and create_draft_listing calls on one publisher *)

Tokens == {PyNone, Val(""), Val("tokenA"), Val("tokenB")}

TokenResponses ==
    {[kind |-> k, access |-> PyNone, refresh |-> PyNone] :
        k \in {"transport_error", "http_error", "not_json", "json_array"}}
    \cup {[kind |-> "json_object", access |-> a, refresh |-> r] :
             a \in Tokens, r \in {PyNone, Val("refresh")}}

DraftResponses ==
    {[kind |-> "transport_error", sku |-> PyNone, text |-> ShortErr],
     [kind |-> "created", sku |-> Val("sku1"), text |-> <<>>],
     [kind |-> "created", sku |-> PyNone, text |-> <<>>],
     [kind |-> "created_not_json", sku |-> PyNone, text |-> ShortErr],
     [kind |-> "status", sku |-> PyNone, text |-> <<"4", "0", "1">> \o ApiErrSep \o <<"n", "o">>]}

SampleListings ==
    {ProductListing(<<"N", "i", "k", "e">>, <<"o", "k">>, <<"A">>, MinWeight),
     ProductListing(ErrTitlePrefix \o ShortErr, <<>>, <<"A">>, DefaultWeight)}

SampleUrls == {<<>>, <<Url(BucketName, Filename(0, 0))>>}

InitPub == Idle

GetAccessToken ==
    /\ tokenPosts + draftPosts < MaxPubCalls
    /\ \E resp \in TokenResponses, jsonErrCaught \in BOOLEAN :
          LET r == get_access_token(access_token, refresh_token, resp, jsonErrCaught)
          IN  /\ access_token' = r.access_token
              /\ refresh_token' = r.refresh_token
              /\ tokenPosts' = tokenPosts + 1
              /\ reportedSuccess' = (reportedSuccess \/ r.ret = "True")
              /\ pubCall' = [op |-> "get_access_token", ret |-> r.ret,
                             tokenBefore |-> access_token,
                             refreshBefore |-> refresh_token,
                             reportedBefore |-> reportedSuccess,
                             result |-> NoCallResult]
    /\ UNCHANGED <<draftPosts, fnVars, genVars, upVars, appVars, storeVars,
                   cfgVars>>

CreateDraftListing ==
    /\ tokenPosts + draftPosts < MaxPubCalls
    /\ \E listing \in SampleListings, urls \in SampleUrls, resp \in DraftResponses :
          LET r == create_draft_listing(access_token, listing, urls, resp)
          IN  /\ draftPosts' = IF r.posted THEN draftPosts + 1 ELSE draftPosts
              /\ pubCall' = [op |-> "create_draft_listing", ret |-> "dict",
                             tokenBefore |-> access_token,
                             refreshBefore |-> refresh_token,
                             reportedBefore |-> reportedSuccess,
                             result |-> r]
    /\ UNCHANGED <<access_token, refresh_token, tokenPosts, reportedSuccess, fnVars,
                   genVars, upVars, appVars, storeVars,
                   cfgVars>>

NextPub == GetAccessToken \/ CreateDraftListing

SpecPub == InitPub /\ [][NextPub]_vars

----------------------------------------------------------------------------
(* The Streamlit session of app.py.  Every user interaction reruns main()    *)
(* from its top with the session state of the run before: an action below is *)
(* one such rerun.                                                           *)

\* display_image_upload: with files in the uploader, the first six of them
\* become session_state.uploaded_images; with none, the session keeps what it
\* had.
display_image_upload(files, session_images) ==
    IF files # <<>> THEN Prefix(files, ImageLimit) ELSE session_images

\* Mutant: the title of the form is not written back to the listing.
display_generated_listing_title_kept(listing, edits) ==
    [listing EXCEPT
        !.description =
            IF edits.description # PyNone THEN edits.description ELSE listing.description,
        !.postage_weight =
            IF edits.weight # PyNone THEN edits.weight ELSE listing.postage_weight]

\* display_generated_listing: title, description and postage_weight are set to
\* the values of their widgets (the text the user typed, or the value of the
\* listing the widget was drawn with); edits.f is None for an untouched widget.
display_generated_listing(listing, edits) ==
    [listing EXCEPT
        !.title = IF edits.title # PyNone THEN edits.title ELSE listing.title,
        !.description =
            IF edits.description # PyNone THEN edits.description ELSE listing.description,
        !.postage_weight =
            IF edits.weight # PyNone THEN edits.weight ELSE listing.postage_weight]

\* The part of main every rerun executes: the uploader, then, with a listing in
\* the session, the review form.
Rerun(files, edits) ==
    /\ uploaded_files' = files
    /\ uploaded_images' = display_image_upload(files, uploaded_images)

\* The n files of the upload the user chose as number `set`.
FileSet(set, n) == [i \in 1..n |-> [set |-> set, i |-> i]]

\* tempfile.NamedTemporaryFile for a file of run number `run`.
TempPath(run, i) == [run |-> run, i |-> i]

UserFileSets == {<<>>, FileSet(1, 1), FileSet(2, ImageLimit + 1)}

AppReplySets ==
    [analysis : {TextReply(<<"s", "h", "o", "e">>), ErrorReply(ShortErr)},
     title : {TextReply(<<"N", "i", "k", "e">>), ErrorReply(LongErr)},
     description : {TextReply(<<"<", "b", ">", "o", "k", "\n">>)},
     category : {TextReply(<<"A", " ", ">", " ", "B">>), ErrorReply(ShortErr)},
     weight : {TextReply(<<"2">>), TextReply(<<"2", "k", "g">>)}]

UserEdits ==
    [title : {PyNone, Val(<<"M", "y">>), Val(Repeat("x", TitleLimit + 1))},
     description : {PyNone, Val(<<"d">>)},
     weight : {PyNone, Val(MinWeight)}]

\* The user changes the files in the uploader.
ChooseImages ==
    /\ \E files \in UserFileSets :
          /\ files # uploaded_files
          /\ Rerun(files, NoEdits)
    /\ lastRun' = Ran("choose", lastRun.runs)
    /\ UNCHANGED <<generated_listing, image_urls, listing_created, tempFiles,
                   listingSource, urlsSource>>
    /\ UNCHANGED <<fnVars, genVars, upVars, pubVars, storeVars, cfgVars>>

\* The user clicks "Generate eBay Listing" (lines 421-448): the uploaded images
\* are written to temporary files, generate_complete_listing runs on them, its
\* listing is stored in the session and the temporary files are removed; an
\* exception anywhere in between is reported and ends the handler.
GenerateClick ==
    /\ uploaded_files # <<>>
    /\ lastRun.runs < MaxRuns
    /\ \E replies \in AppReplySets :
          LET images == display_image_upload(uploaded_files, uploaded_images)
              run_no == lastRun.runs + 1
              temp_paths == [i \in 1..Len(images) |-> TempPath(run_no, i)]
              run == generate_complete_listing(temp_paths, {}, replies)
          IN  /\ Rerun(uploaded_files, NoEdits)
              /\ IF run.outcome.kind = "returned"
                 THEN /\ generated_listing' = Val(run.outcome.listing)
                      /\ listingSource' = images
                      /\ tempFiles' = tempFiles
                      /\ lastRun' = Ran("generate", run_no)
                 ELSE /\ generated_listing' = generated_listing
                      /\ listingSource' = listingSource
                      /\ tempFiles' = tempFiles \cup Range(temp_paths)
                      /\ lastRun' = [Ran("generate", run_no) EXCEPT
                                        !.error = Val(run.outcome.error)]
    /\ UNCHANGED <<image_urls, listing_created, urlsSource>>
    /\ UNCHANGED <<fnVars, genVars, upVars, pubVars, storeVars, cfgVars>>

\* The user changes a widget of the review form (lines 452-453, 289-362).
EditListing ==
    /\ generated_listing # PyNone
    /\ \E edits \in UserEdits :
          /\ edits # NoEdits
          /\ Rerun(uploaded_files, edits)
          /\ generated_listing' = Val(display_generated_listing(generated_listing[1], edits))
          /\ lastRun' = [Ran("edit", lastRun.runs) EXCEPT !.edits = edits]
    /\ UNCHANGED <<image_urls, listing_created, tempFiles, listingSource, urlsSource>>
    /\ UNCHANGED <<fnVars, genVars, upVars, pubVars, storeVars, cfgVars>>

\* The user clicks "Upload Images to Cloud" (lines 455-478).  The uploads of
\* one click fall within one second, not before the click before; they all
\* succeed, all fail, or only the first fails.
UploadClick ==
    /\ generated_listing # PyNone
    /\ \E t \in clock..MaxClock, pattern \in {"ok", "fail", "first_fails"} :
          LET images == display_image_upload(uploaded_files, uploaded_images)
              image_files == [i \in 1..Len(images) |-> Val(images[i])]
              outcomes == [i \in 1..Len(images) |->
                              IF pattern = "fail" \/ (pattern = "first_fails" /\ i = 1)
                              THEN "fail" ELSE "ok"]
              times == [i \in 1..Len(images) |-> t]
              r == upload_multiple_images("s3", image_files, outcomes, times)
          IN  /\ Rerun(uploaded_files, NoEdits)
              /\ image_urls' = r.urls
              /\ urlsSource' = images
              /\ clock' = t
    /\ lastRun' = Ran("upload", lastRun.runs)
    /\ UNCHANGED <<generated_listing, listing_created, tempFiles, listingSource>>
    /\ UNCHANGED <<fnVars, genVars, upVars, pubVars, batchNo, uploadLog, cfgVars>>

\* The user clicks "Create eBay Draft Listing" (lines 480-511).  final_listing
\* is the record the review form returned in this rerun.  The handler builds a
\* new eBayAPIManager, whose access_token is None (line 94): it shows the
\* preview of lines 488-500; only with a token would it hand the listing and
\* the URLs to create_draft_listing and, on success, set listing_created.
PublishClick ==
    /\ generated_listing # PyNone
    /\ image_urls # <<>>
    /\ \E resp \in DraftResponses :
          LET manager_token == PyNone
              final_listing == display_generated_listing(generated_listing[1], NoEdits)
              r == create_draft_listing(manager_token, final_listing, image_urls, resp)
          IN  /\ Rerun(uploaded_files, NoEdits)
              /\ IF MissingToken(manager_token)
                 THEN /\ listing_created' = listing_created
                      /\ lastRun' = [Ran("publish", lastRun.runs) EXCEPT
                                        !.final = Val(final_listing)]
                 ELSE /\ listing_created' = (listing_created \/ r.success)
                      /\ lastRun' = [Ran("publish", lastRun.runs) EXCEPT
                                        !.error = IF r.success THEN PyNone ELSE Val(r.error),
                                        !.handed = r.payload,
                                        !.final = Val(final_listing)]
    /\ UNCHANGED <<generated_listing, image_urls, tempFiles, listingSource, urlsSource>>
    /\ UNCHANGED <<fnVars, genVars, upVars, pubVars, storeVars, cfgVars>>

Init == Idle

Next == ChooseImages \/ GenerateClick \/ EditListing \/ UploadClick \/ PublishClick

Spec == Init /\ [][Next]_vars

----------------------------------------------------------------------------
(* SpecEdit: the review form and the publish button, from the session state *)
(* after one file was chosen, a listing generated from it and its upload    *)
(* done                                                                     *)

InitEdit ==
    /\ \E replies \in AppReplySets :
          LET run == generate_complete_listing(<<TempPath(1, 1)>>, {}, replies)
          IN  /\ run.outcome.kind = "returned"
              /\ generated_listing = Val(run.outcome.listing)
    /\ uploaded_files = FileSet(1, 1)
    /\ uploaded_images = FileSet(1, 1)
    /\ image_urls = <<Url(BucketName, Filename(0, 0))>>
    /\ listingSource = FileSet(1, 1)
    /\ urlsSource = FileSet(1, 1)
    /\ listing_created = FALSE
    /\ tempFiles = {}
    /\ lastRun = Ran("upload", 1)
    /\ FnIdle /\ GenIdle /\ UpIdle /\ PubIdle /\ StoreIdle /\ CfgIdle

NextEdit == EditListing \/ PublishClick

SpecEdit == InitEdit /\ [][NextEdit]_vars

----------------------------------------------------------------------------
(* Claims *)

FieldCalls == {i \in 1..Len(modelCalls) : modelCalls[i].call # "analysis"}
AnalysisCalls == {i \in 1..Len(modelCalls) : modelCalls[i].call = "analysis"}

\* C1: when analyze_product_images returns a failure, generate_complete_listing
\* ends in an exception that carries the error of the analysis, returns no
\* listing, and no field generator has been called.
C1_AnalysisFailureAborts ==
    (analysis_result.kind = "returned" /\ ~analysis_result.success) =>
        /\ genOutcome.kind = "raised"
        /\ genOutcome.error = AnalyzeFailPrefix \o analysis_result.error
        /\ genOutcome.listing = NoListing
        /\ FieldCalls = {}

C1_Witness ==
    /\ analysis_result.kind = "returned"
    /\ ~analysis_result.success
    /\ genOutcome.kind = "raised"
    /\ analysis_result.error = ShortErr

\* What each field holds after a run, from the reply to its generator: the
\* generated value when the generator succeeded, its own degraded value when
\* it failed.
C2_FieldsAsGenerated ==
    LET l == genOutcome.listing
        r == modelReplies
    IN  /\ l.title = Val(IF Succeeds(r.title)
                         THEN (LET t == Strip(r.title.text)
                               IN  IF Len(t) > TitleLimit THEN SubSeq(t, 1, TitleLimit) ELSE t)
                         ELSE ErrTitlePrefix \o ExcMsg(r.title))
        /\ l.description = Val(IF Succeeds(r.description)
                               THEN Strip(r.description.text)
                               ELSE ErrDescPrefix \o ExcMsg(r.description) \o ErrDescSuffix)
        /\ l.category = Val(IF Succeeds(r.category)
                            THEN Strip(r.category.text)
                            ELSE ErrCatPrefix \o ExcMsg(r.category))
        /\ l.postage_weight =
              Val(IF Succeeds(r.weight) /\ FloatParse(r.weight.text).ok
                  THEN (LET w == FloatParse(r.weight.text).val
                        IN  IF Lt(w, MinWeight) \/ w.nan THEN MinWeight ELSE w)
                  ELSE DefaultWeight)

\* C2 as claimed: when the analysis step succeeds the run returns a listing for
\* every combination of success and failure of the four generators, each field
\* is its generated or its own degraded value, and no field of the record is
\* null.
C2_AsClaimed ==
    (analysis_result.kind = "returned" /\ analysis_result.success) =>
        /\ genOutcome.kind = "returned"
        /\ C2_FieldsAsGenerated
        /\ \A f \in DOMAIN genOutcome.listing : genOutcome.listing[f] # PyNone

\* C2 as amended: as claimed, except that it is the four generated fields that are
\* never null; suggested_price is not set by the run and is None.
C2_DegradedListing ==
    (analysis_result.kind = "returned" /\ analysis_result.success) =>
        /\ genOutcome.kind = "returned"
        /\ C2_FieldsAsGenerated
        /\ \A f \in {"title", "description", "category", "postage_weight"} :
              genOutcome.listing[f] # PyNone
        /\ genOutcome.listing.suggested_price = PyNone

C2_Witness ==
    /\ analysis_result.success
    /\ genOutcome.kind = "returned"
    /\ ~Succeeds(modelReplies.title)
    /\ Succeeds(modelReplies.description)
    /\ ~Succeeds(modelReplies.category)
    /\ ~Succeeds(modelReplies.weight)
    /\ genOutcome.listing.postage_weight = Val(DefaultWeight)

\* C4: a raw weight text that parses as a number >= 0.1 is stored as that
\* number, one that parses as a number < 0.1 is stored as 0.1, and one that
\* does not parse is stored as 0.5.
C4_WeightRule ==
    (weightCall.done /\ weightCall.reply.kind = "text") =>
        LET p == FloatParse(weightCall.reply.text)
        IN  /\ (p.ok /\ Ge(p.val, MinWeight)) => weightCall.stored = p.val
            /\ (p.ok /\ Lt(p.val, MinWeight)) => weightCall.stored = MinWeight
            /\ ~p.ok => weightCall.stored = DefaultWeight

C4_Witness ==
    /\ weightCall.done
    /\ weightCall.reply = TextReply(<<"0", ".", "0", "2">>)
    /\ weightCall.stored = MinWeight

\* C5 as claimed: a text of the title call longer than 80 characters is stored
\* as its first 80 characters, a text of at most 80 characters is stored
\* unchanged.
C5_AsClaimed ==
    (titleCall.done /\ titleCall.reply.kind = "text") =>
        LET raw == titleCall.reply.text
        IN  /\ Len(raw) > TitleLimit =>
                  /\ titleCall.stored = SubSeq(raw, 1, TitleLimit)
                  /\ Len(titleCall.stored) = TitleLimit
            /\ Len(raw) <= TitleLimit => titleCall.stored = raw

\* C5 as amended: with t the text of the title call without its leading and
\* trailing whitespace, a t longer than 80 characters is stored as its first 80
\* characters, a t of at most 80 characters is stored as t.
C5_TitleTruncation ==
    (titleCall.done /\ titleCall.reply.kind = "text") =>
        LET t == Strip(titleCall.reply.text)
        IN  /\ Len(t) > TitleLimit =>
                  /\ titleCall.stored = SubSeq(t, 1, TitleLimit)
                  /\ Len(titleCall.stored) = TitleLimit
            /\ Len(t) <= TitleLimit => titleCall.stored = t

C5_Witness ==
    /\ titleCall.done
    /\ Len(titleCall.reply.text) > TitleLimit
    /\ IsSpace(titleCall.reply.text[1])
    /\ Len(Strip(titleCall.reply.text)) > TitleLimit
    /\ Len(titleCall.stored) = TitleLimit
    /\ titleCall.stored # SubSeq(titleCall.reply.text, 1, TitleLimit)

\* C6: a listing held by the session, from the run that generated it through
\* every edit, has a title of at most 80 characters.
C6_AsClaimed ==
    generated_listing # PyNone => Len(generated_listing[1].title[1]) <= TitleLimit

\* C7: the request of the analysis step carries the first min(n, 6) of the n
\* paths in their order, and a path after the sixth is neither opened nor sent.
C7_FirstSixImages ==
    LET n == Len(image_paths)
        k == Min(n, ImageLimit)
    IN  /\ Len(readLog) <= k
        /\ \A i \in 1..Len(readLog) : readLog[i] = image_paths[i]
        /\ \A c \in AnalysisCalls :
              /\ Len(modelCalls[c].images) = k
              /\ \A i \in 1..k : modelCalls[c].images[i] = encode_image(image_paths[i])
              /\ Len(readLog) = k
        /\ \A j \in (ImageLimit + 1)..n :
              /\ image_paths[j] \notin Range(readLog)
              /\ \A c \in AnalysisCalls :
                    encode_image(image_paths[j]) \notin Range(modelCalls[c].images)

C7_Witness ==
    /\ Len(image_paths) = MaxImages
    /\ AnalysisCalls # {}
    /\ \A c \in AnalysisCalls : Len(modelCalls[c].images) = ImageLimit
    /\ Len(readLog) = ImageLimit

\* C8: the analysis step never raises: when it cannot produce an analysis it
\* returns success false with the error message, and when it can it returns
\* success true with the text of the model.
C8_AsClaimed ==
    analysis_result.kind # "none" =>
        /\ analysis_result.kind = "returned"
        /\ modelReplies.analysis.kind = "error" =>
              /\ ~analysis_result.success
              /\ analysis_result.error = modelReplies.analysis.text
        /\ modelReplies.analysis.kind = "text" =>
              /\ analysis_result.success
              /\ analysis_result.analysis = Val(modelReplies.analysis.text)

\* C3: create_draft_listing called while no exchange has succeeded, or while
\* the publisher holds no access token, returns the failure "No access token
\* available" and sends no request to the draft-listing endpoint.
C3_UnauthenticatedFailsFast ==
    (/\ pubCall.op = "create_draft_listing"
     /\ (~pubCall.reportedBefore \/ ~Truthy(pubCall.tokenBefore))) =>
        /\ ~pubCall.result.posted
        /\ pubCall.result.payload = PyNone
        /\ ~pubCall.result.success
        /\ pubCall.result.error = NoTokenMsg
        /\ draftPosts = 0 \/ reportedSuccess

C3_Witness ==
    /\ pubCall.op = "create_draft_listing"
    /\ ~pubCall.reportedBefore
    /\ pubCall.result.error = NoTokenMsg
    /\ draftPosts = 0

\* C9: the publisher holds an access token exactly when some earlier
\* get_access_token call returned True, and a call that returned False left both
\* tokens as they were.
C9_AsClaimed ==
    /\ Truthy(access_token) <=> reportedSuccess
    /\ (pubCall.op = "get_access_token" /\ pubCall.ret = "False") =>
          /\ access_token = pubCall.tokenBefore
          /\ refresh_token = pubCall.refreshBefore

\* C10: the result of upload_multiple_images holds, in the order of the input,
\* one URL for each item whose upload succeeded and nothing else; every item
\* given is attempted, whatever happened to the items before it; every upload
\* that failed is reported; the result is no longer than the input.
C10_UrlsOfSuccessfulUploads ==
    upCall.done =>
        LET n == Len(upCall.files)
            given == {i \in 1..n : upCall.files[i] # PyNone}
            sent == IF upCall.storage_type = "s3" THEN given ELSE {}
            ok == {i \in sent : upCall.outcomes[i] = "ok"}
            urls == upResult.urls
        IN  /\ Len(urls) = Cardinality(ok)
            /\ Len(urls) <= n
            /\ \A k \in 1..Len(urls) :
                  /\ urls[k].key.i + 1 \in ok
                  /\ urls[k] = Url(BucketName,
                                   Filename(upCall.times[urls[k].key.i + 1], urls[k].key.i))
                  /\ k > 1 => urls[k - 1].key.i < urls[k].key.i
            /\ Range(upResult.attempts) = {i - 1 : i \in given}
            /\ Len(upResult.attempts) = Cardinality(given)
            /\ Range(upResult.errors) = {i - 1 : i \in sent \ ok}
            /\ Len(upResult.errors) = Cardinality(sent \ ok)

C10_Witness ==
    /\ upCall.done
    /\ upCall.storage_type = "s3"
    /\ Len(upCall.files) = MaxFiles
    /\ \A i \in 1..MaxFiles : upCall.files[i] # PyNone
    /\ upCall.outcomes[1] = "fail"
    /\ upCall.outcomes[MaxFiles] = "ok"
    /\ Len(upResult.urls) = MaxFiles - 1
    /\ upResult.errors = <<0>>

\* C11: no two objects uploaded in a session are stored under the same key: the
\* names of two different (batch, position) pairs differ.
C11_AsClaimed ==
    \A a, b \in uploadLog : a # b => a.key # b.key

\* C12: whatever subset of the seven required keys is missing, the start is
\* blocked before main runs and the list shown names exactly the missing keys;
\* with none of them missing main runs, whether or not the keys that have a
\* default are set.
MissingKeys == {k \in RequiredKeys : env[k] # "set"}
C12_MissingKeysBlockStartup ==
    startup.done =>
        /\ {startup.reported[i].var : i \in 1..Len(startup.reported)} = MissingKeys
        /\ Len(startup.reported) = Cardinality(MissingKeys)
        /\ MissingKeys # {} => startup.main = "not_called"
        /\ MissingKeys = {} => startup.main = "ran"
C12_Witness ==
    /\ startup.done
    /\ startup.main = "not_called"
    /\ Len(startup.reported) = 2
    /\ env["AWS_REGION"] = "unset"
    /\ env["EBAY_SANDBOX"] = "unset"

\* C13: no operation of the publisher lets an exception escape: whatever the
\* endpoint answered, the OAuth code exchange ends with True or False and
\* create_draft_listing with its result dict.
C13_AsClaimed ==
    pubCall.op # "none" => pubCall.ret \in {"True", "False", "dict"}

\* C15, as claimed: every run of generate_complete_listing calls the model
\* exactly once for the analysis.
C15_AsClaimed ==
    genOutcome.kind # "none" => Cardinality(AnalysisCalls) = 1

\* C15: a run calls the model for the analysis once, or not at all when an
\* image could not be read before the request; if the analysis succeeded, and
\* only then, it calls it once for each of the four fields, after the analysis
\* call and with the analysis it returned; no call is repeated, and a listing
\* is returned only by a run that made all four field calls.
CallsOf(name) == {i \in 1..Len(modelCalls) : modelCalls[i].call = name}
C15_OneCallPerStep ==
    genOutcome.kind # "none" =>
        /\ analysis_result.kind = "raised" => modelCalls = <<>>
        /\ analysis_result.kind = "returned" => AnalysisCalls = {1}
        /\ (analysis_result.kind = "returned" /\ analysis_result.success) =>
              /\ Len(modelCalls) = 5
              /\ \A name \in {"title", "description", "category", "weight"} :
                    /\ Cardinality(CallsOf(name)) = 1
                    /\ \A i \in CallsOf(name) :
                          i > 1 /\ modelCalls[i].analysis = analysis_result.analysis
        /\ ~(analysis_result.kind = "returned" /\ analysis_result.success) =>
              FieldCalls = {}
        /\ genOutcome.listing # NoListing =>
              genOutcome.kind = "returned" /\ Cardinality(FieldCalls) = 4
        /\ genOutcome.kind = "returned" => genOutcome.listing # NoListing
C15_Witness ==
    /\ genOutcome.kind = "returned"
    /\ Len(modelCalls) = 5
    /\ analysis_result.analysis # PyNone
    /\ modelReplies.title.kind = "error"

\* C14, as claimed: with a listing generated and an image URL uploaded, the
\* publish action hands the session's record and its image URLs to
\* create_draft_listing.
C14_AsClaimed ==
    lastRun.action = "publish" =>
        lastRun.handed = Val(DraftPayload(generated_listing[1], image_urls))

\* C16: a rerun of the review form sets title, description and postage_weight
\* to the values of the form and leaves category and suggested_price as they
\* were; the record the publish handler works with is the session's record as
\* the latest edit left it.
C16_EditFrame ==
    [][/\ lastRun'.action = "edit" =>
            LET old == generated_listing[1]
                new == generated_listing'[1]
                e == lastRun'.edits
            IN  /\ new.title = IF e.title # PyNone THEN e.title ELSE old.title
                /\ new.description =
                      IF e.description # PyNone THEN e.description ELSE old.description
                /\ new.postage_weight =
                      IF e.weight # PyNone THEN e.weight ELSE old.postage_weight
                /\ new.category = old.category
                /\ new.suggested_price = old.suggested_price
       /\ lastRun'.action = "publish" =>
            /\ lastRun'.final = generated_listing
            /\ generated_listing' = generated_listing]_vars
C16_Witness ==
    /\ lastRun.action = "publish"
    /\ lastRun.final # PyNone
    /\ lastRun.final[1].title = Val(<<"M", "y">>)
    /\ lastRun.final[1].description = Val(<<"d">>)
    /\ lastRun.final[1].postage_weight = Val(MinWeight)
    /\ lastRun.final[1].category = Val(ErrCatPrefix \o ShortErr)

\* C17: no temporary file of a generate run is left when its handler has
\* finished, whether the run succeeded or failed.
C17_AsClaimed == tempFiles = {}

\* C18: whenever publish runs, the listing and the image URLs of the session
\* come from the same uploaded images.
C18_AsClaimed ==
    lastRun.action = "publish" => listingSource = urlsSource

====
